---- MODULE Spec2Model ----
(***************************************************************************)
(* Directory Tree Generator: the main-process tree builder (src/main.js)   *)
(* and the renderer's editable tree (src/public/script.js).                *)
(*                                                                         *)
(* JavaScript strings are TLA+ strings; JavaScript objects are records     *)
(* whose DOMAIN is the set of properties the object has.                   *)
(***************************************************************************)
EXTENDS Integers, Sequences, FiniteSets, TLC

VARIABLES
    fs,               \* the file system object found at folderPath
    ignoreList,       \* explicit ignore names handed to 'generate-tree'
    useGitignore,     \* the useGitignore flag handed to 'generate-tree'
    generated,        \* what the 'generate-tree' handler produced
    currentTreeData,  \* the renderer's live tree
    nodeBeingEdited,  \* id of the node in rename mode, or NoId
    nextId,           \* counter behind generateUniqueId
    previousTreeData, \* snapshot held by a 'Generate Tree' click in flight
    editorRendered,   \* the interactive editor shows the tree's controls
    treeOutput,       \* treeOutput.textContent
    activeBtn,        \* the display button carrying the class 'active'
    disabled,         \* the disabled property of the output buttons
    savedTree         \* what the last 'Save Tree' click handed to saveTreeFile

buildVars == <<fs, ignoreList, useGitignore, generated>>

editorVars == <<currentTreeData, nodeBeingEdited, nextId,
                previousTreeData, editorRendered>>

displayVars == <<treeOutput, activeBtn, disabled, savedTree>>

vars == <<fs, ignoreList, useGitignore, generated, currentTreeData,
          nodeBeingEdited, nextId, previousTreeData, editorRendered,
          treeOutput, activeBtn, disabled, savedTree>>

-----------------------------------------------------------------------------
(* String primitives of JavaScript / node:path used by the code.           *)

Whitespace == {" ", "\t", "\n", "\r"}

RECURSIVE trimStart(_)
trimStart(s) ==
    IF s # "" /\ Head(s) \in Whitespace THEN trimStart(Tail(s)) ELSE s

RECURSIVE trimEnd(_)
trimEnd(s) ==
    IF s # "" /\ SubSeq(s, Len(s), Len(s)) \in Whitespace
    THEN trimEnd(SubSeq(s, 1, Len(s) - 1))
    ELSE s

trim(s) == trimEnd(trimStart(s))

startsWith(s, c) == s # "" /\ Head(s) = c

endsWith(s, c) == s # "" /\ SubSeq(s, Len(s), Len(s)) = c

\* String.prototype.split(sep) for a one-character separator.
RECURSIVE split(_, _)
split(s, sep) ==
    IF s = "" THEN <<"">>
    ELSE LET rest == split(Tail(s), sep)
         IN  IF Head(s) = sep
             THEN <<"">> \o rest
             ELSE <<Head(s) \o Head(rest)>> \o Tail(rest)

\* path.basename: the part after the last separator.
basename(p) ==
    LET parts == split(p, "/") IN parts[Len(parts)]

\* path.join(dir, entry) for an already normalised dir and a plain name.
join(dir, entry) == dir \o "/" \o entry

-----------------------------------------------------------------------------
(* The file system as the builder sees it.  An object has a kind, answers   *)
(* fs.stat (statOk) and fs.readdir (readdirOk) or fails them, lists its     *)
(* entries in readdir order, and a directory may hold a .gitignore whose    *)
(* read gives its content or fails with an error code.                      *)

NoGitignore == [code |-> "ENOENT"]

DeniedGitignore == [code |-> "EACCES"]

Gitignore(text) == [code |-> "ok", content |-> text]

File(n) ==
    [name |-> n, kind |-> "file", statOk |-> TRUE, readdirOk |-> FALSE,
     gitignore |-> [code |-> "ENOTDIR"], entries |-> <<>>]

Dir(n, st, rd, gi, es) ==
    [name |-> n, kind |-> "dir", statOk |-> st, readdirOk |-> rd,
     gitignore |-> gi, entries |-> es]

-----------------------------------------------------------------------------
(* src/main.js                                                              *)

\* Mutant: a trailing slash is left on the pattern.
gitignoreLine_keepSlash(rawLine) ==
    LET line == trim(rawLine)
        noLead == IF startsWith(line, "/") THEN Tail(line) ELSE line
    IN  IF startsWith(line, "#") \/ line = "" THEN <<>> ELSE <<noLead>>

\* One line of a .gitignore: <<>> when the line is skipped, else <<pattern>>.
gitignoreLine(rawLine) ==
    LET line == trim(rawLine)
        noLead == IF startsWith(line, "/") THEN Tail(line) ELSE line
        noTrail == IF endsWith(noLead, "/")
                   THEN SubSeq(noLead, 1, Len(noLead) - 1)
                   ELSE noLead
    IN  IF startsWith(line, "#") \/ line = "" THEN <<>> ELSE <<noTrail>>

RECURSIVE gitignoreLines(_)
gitignoreLines(lines) ==
    IF lines = <<>> THEN <<>>
    ELSE gitignoreLine(Head(lines)) \o gitignoreLines(Tail(lines))

\* The array of patterns of the .gitignore in directory dir; a failed read
\* (missing file or any other error) leaves the array empty.
getGitignorePatterns(dir) ==
    IF dir.gitignore.code = "ok"
    THEN gitignoreLines(split(dir.gitignore.content, "\n"))
    ELSE <<>>

Range(seq) == {seq[i] : i \in 1..Len(seq)}

RECURSIVE allGitignorePatterns(_)
allGitignorePatterns(dir) ==
    Range(getGitignorePatterns(dir)) \cup
    UNION {allGitignorePatterns(dir.entries[i]) : i \in 1..Len(dir.entries)}

\* Mutant: the explicit list is not put into the set.
combinedIgnoreSet_noExplicit(dir, list, useGit) ==
    IF useGit THEN Range(getGitignorePatterns(dir)) ELSE {}

\* Mutant: the .gitignore files of the whole subtree are collected up front.
combinedIgnoreSet_subtree(dir, list, useGit) ==
    list \cup (IF useGit THEN allGitignorePatterns(dir) ELSE {})

\* The Set built at the top of readDirectoryRecursive.
combinedIgnoreSet(dir, list, useGit) ==
    list \cup (IF useGit THEN Range(getGitignorePatterns(dir)) ELSE {})

Null == [tag |-> "null"]

Thrown(msg) == [tag |-> "throw", message |-> msg]

Pushed(children) == [tag |-> "children", children |-> children]

IsNode(r) == "tag" \notin DOMAIN r

IsThrown(r) == "tag" \in DOMAIN r /\ r.tag = "throw"

\* Mutant: the root call is not told apart from the others.
isRootCall_never(dirPath, initialRootPath) == FALSE

isRootCall(dirPath, initialRootPath) == dirPath = initialRootPath

\* Mutant: every stat failure is thrown to the caller.
statFailed_alwaysThrow(rootCall, name) ==
    Thrown("Cannot access selected folder")

\* The catch block around fs.stat.
statFailed(rootCall, name) ==
    IF rootCall
    THEN Thrown("Cannot access selected folder")
    ELSE [name |-> name \o " (inaccessible)", type |-> "error"]

\* Mutant: a failed readdir is thrown to the caller.
readdirFailed_throw(name) == Thrown("Could not read directory")

\* The catch block around fs.readdir.
readdirFailed(name) == [name |-> name \o " (cannot read)", type |-> "error"]

RECURSIVE readDirectoryRecursive(_, _, _, _, _)
RECURSIVE scanEntries(_, _, _, _, _, _)

\* The for loop over the entries of a directory, from entry i on: the
\* children pushed (Pushed), or the exception a recursive call let escape.
scanEntries(entries, i, dirPath, initialRootPath, combined, useGit) ==
    IF i > Len(entries) THEN Pushed(<<>>)
    ELSE LET entry == entries[i].name
             rest == scanEntries(entries, i + 1, dirPath, initialRootPath,
                                 combined, useGit)
         IN  IF entry \in combined THEN rest
             ELSE LET childNode ==
                          readDirectoryRecursive(entries[i],
                              join(dirPath, entry), initialRootPath,
                              combined, useGit)
                  IN  IF IsThrown(childNode) THEN childNode
                      ELSE IF IsThrown(rest) THEN rest
                      ELSE IF IsNode(childNode)
                           THEN Pushed(<<childNode>> \o rest.children)
                      ELSE rest

readDirectoryRecursive(obj, dirPath, initialRootPath, list, useGit) ==
    LET name == basename(dirPath)
        rootCall == isRootCall(dirPath, initialRootPath)
        combined == combinedIgnoreSet(obj, list, useGit)
    IN  IF ~rootCall /\ name \in combined THEN Null
        ELSE IF ~obj.statOk THEN statFailed(rootCall, name)
        ELSE IF obj.kind = "file"
             THEN IF name \in combined THEN Null
                  ELSE [name |-> name, type |-> "file"]
        ELSE IF ~obj.readdirOk THEN readdirFailed(name)
        ELSE LET pushed == scanEntries(obj.entries, 1, dirPath,
                                       initialRootPath, combined, useGit)
             IN  IF IsThrown(pushed) THEN pushed
                 ELSE [name |-> name, type |-> "folder",
                       children |-> pushed.children]

\* ipcMain.handle('generate-tree'): the tree, or the error it throws.
generateTree(obj, folderPath, list, useGit) ==
    LET tree == readDirectoryRecursive(obj, folderPath, folderPath, list,
                                       useGit)
    IN  IF IsThrown(tree)
        THEN Thrown("Failed to generate tree: " \o tree.message)
        ELSE IF tree = Null
        THEN [name |-> basename(folderPath), type |-> "folder",
              children |-> <<>>]
        ELSE tree

-----------------------------------------------------------------------------
(* The builder run on a family of small file systems.                       *)

FolderPath == "/w/p"

NotRun == [tag |-> "notrun"]

RootGitignores ==
    {NoGitignore, Gitignore("a"), Gitignore("/b/\n#c"), Gitignore("p\n c \n"),
     Gitignore(" #c\n//b//\n\t\n/\r\nc")}

SubGitignores ==
    {NoGitignore, Gitignore("b"), Gitignore("a"), Gitignore("c/\n\n")}

Access == {<<TRUE, TRUE>>, <<TRUE, FALSE>>, <<FALSE, FALSE>>}

IgnoreLists == {{}, {"a"}, {"b"}, {"c"}, {"p"}, {"b", "p"}}

DirA(acc, gi) ==
    Dir("a", acc[1], acc[2], IF acc[1] THEN gi ELSE DeniedGitignore,
        <<File("b"), File("c")>>)

EntryB == {File("b"), Dir("b", TRUE, TRUE, NoGitignore, <<File("c")>>)}

FileSystems ==
    {Dir("p", racc[1], racc[2], IF racc[1] THEN rgi ELSE DeniedGitignore, es) :
        racc \in Access, rgi \in RootGitignores,
        es \in UNION {{<<DirA(acc, gi), b>>, <<b, DirA(acc, gi)>>} :
                        acc \in Access, gi \in SubGitignores, b \in EntryB}}


-----------------------------------------------------------------------------
(* src/public/script.js: the tree held in currentTreeData.  A node is a     *)
(* record; a property that is undefined is a field the record lacks.  A     *)
(* path is the sequence of child positions leading from the root to a node. *)

NoId == "<null>"

Undefined == "<undefined>"

RootId == "root"

Has(node, field) == field \in DOMAIN node

IdOf(node) == IF Has(node, "id") THEN node.id ELSE Undefined

ChildrenOf(node) == IF Has(node, "children") THEN node.children ELSE <<>>

IsCollapsed(node) == Has(node, "collapsed") /\ node.collapsed

HasUserOrder(node) == Has(node, "userOrder")

\* The record with one property set (added when it is not there yet).
With(node, field, value) == (field :> value) @@ node

\* The record with one property deleted.
Without(node, field) == [f \in DOMAIN node \ {field} |-> node[f]]

RECURSIVE GetNode(_, _)
GetNode(node, p) ==
    IF p = <<>> THEN node ELSE GetNode(node.children[Head(p)], Tail(p))

RECURSIVE PutNode(_, _, _)
PutNode(node, p, new) ==
    IF p = <<>> THEN new
    ELSE [node EXCEPT !.children[Head(p)] = PutNode(@, Tail(p), new)]

\* The paths of all nodes reachable through children.
RECURSIVE NodePaths(_)
NodePaths(node) ==
    {<<>>} \cup
    UNION {{<<i>> \o q : q \in NodePaths(node.children[i])} :
             i \in 1..Len(ChildrenOf(node))}

\* generateUniqueId: the id made from the counter value n.
generateUniqueId(n) == "node-" \o ToString(n)

\* The value is a JSON object (not null).
IsObject(tree) == ~Has(tree, "json")

RECURSIVE assignIdsAndCollapsedState(_, _)
RECURSIVE assignChildren(_, _, _)

\* children.forEach(child => assignIdsAndCollapsedState(child)) from child i
\* on: the children after the walk and the counter after it; the walk ends
\* at the first child on which the call throws.
assignChildren(children, i, next) ==
    IF i > Len(children)
    THEN [children |-> children, next |-> next, thrown |-> FALSE]
    ELSE LET one == assignIdsAndCollapsedState(children[i], next)
             walked == [children EXCEPT ![i] = one.node]
         IN  IF one.thrown
             THEN [children |-> walked, next |-> one.next, thrown |-> TRUE]
             ELSE assignChildren(walked, i + 1, one.next)

\* The node after the walk and the counter after it.  On null the test
\* !node.id throws a TypeError, which ends the walk with what was assigned
\* so far left in place.
assignIdsAndCollapsedState(node, next) ==
    IF ~IsObject(node)
    THEN [node |-> node, next |-> next, thrown |-> TRUE]
    ELSE
    LET withId == IF ~Has(node, "id")
                  THEN With(node, "id", generateUniqueId(next))
                  ELSE node
        next1 == IF ~Has(node, "id") THEN next + 1 ELSE next
    IN  IF withId.type = "folder"
        THEN LET withCollapsed == IF ~Has(withId, "collapsed")
                                  THEN With(withId, "collapsed", FALSE)
                                  ELSE withId
             IN  IF Has(withCollapsed, "children")
                 THEN LET walked == assignChildren(withCollapsed.children, 1, next1)
                      IN  [node |-> [withCollapsed EXCEPT
                                       !.children = walked.children],
                           next |-> walked.next,
                           thrown |-> walked.thrown]
                 ELSE [node |-> withCollapsed, next |-> next1,
                       thrown |-> FALSE]
        ELSE [node |-> withId, next |-> next1, thrown |-> FALSE]

NotFound == [found |-> FALSE]

Found(p) == [found |-> TRUE, path |-> p]

RECURSIVE findNodeById(_, _)
RECURSIVE findInChildren(_, _, _)

\* The for loop of findNodeById over root's children from child i on.
findInChildren(root, i, id) ==
    IF i > Len(ChildrenOf(root)) THEN NotFound
    ELSE LET found == findNodeById(root.children[i], id)
         IN  IF found.found THEN Found(<<i>> \o found.path)
             ELSE findInChildren(root, i + 1, id)

\* Depth-first search for the first node carrying id.
findNodeById(root, id) ==
    IF IdOf(root) = id THEN Found(<<>>) ELSE findInChildren(root, 1, id)

RECURSIVE findNodeParent(_, _)
RECURSIVE findParentInChildren(_, _, _)

\* The for loop of findNodeParent over root's children from child i on.
findParentInChildren(root, i, id) ==
    IF i > Len(ChildrenOf(root)) THEN NotFound
    ELSE LET found == findNodeParent(root.children[i], id)
         IN  IF found.found THEN Found(<<i>> \o found.path)
             ELSE findParentInChildren(root, i + 1, id)

\* The first node, in the search order of the code, with a child carrying id.
findNodeParent(root, id) ==
    IF \E i \in 1..Len(ChildrenOf(root)) : IdOf(root.children[i]) = id
    THEN Found(<<>>)
    ELSE findParentInChildren(root, 1, id)

\* A JSON value that is not a string, where a name is looked for.
NotAString == "<not a string>"

\* A JSON value that is not an array, where children are looked for.
NotAnArray == <<[json |-> "object"]>>

\* typeof value === 'string'
IsString(value) == value # NotAString

\* Array.isArray(value)
IsArray(value) == value # NotAnArray

\* The test without its restriction of tree.type.
isValidTreeStructure_anyType(tree) ==
    /\ IsObject(tree)
    /\ Has(tree, "name") /\ IsString(tree.name)
    /\ Has(tree, "type")
    /\ Has(tree, "children") /\ IsArray(tree.children)

isValidTreeStructure(tree) ==
    /\ IsObject(tree)
    /\ Has(tree, "name") /\ IsString(tree.name)
    /\ Has(tree, "type") /\ tree.type \in {"folder", "file"}
    /\ Has(tree, "children") /\ IsArray(tree.children)

\* JSON.parse(JSON.stringify(node)): a structural copy of the properties.
RECURSIVE jsonClone(_)
jsonClone(node) ==
    [f \in DOMAIN node |->
        IF f = "children"
        THEN [i \in 1..Len(node.children) |-> jsonClone(node.children[i])]
        ELSE node[f]]

\* What refreshInteractiveTreeEditor renders controls for: the root line,
\* the root's children when the root is an expanded folder, and below a
\* rendered node the children of a folder; a non-root node carrying the
\* root's id is skipped together with what is beneath it.
RECURSIVE RenderedBelow(_, _)
RenderedBelow(node, p) ==
    UNION {IF IdOf(node.children[i]) = RootId THEN {}
           ELSE {p \o <<i>>} \cup
                (IF node.children[i].type = "folder"
                 THEN RenderedBelow(node.children[i], p \o <<i>>)
                 ELSE {}) :
             i \in 1..Len(ChildrenOf(node))}

Rendered(tree) ==
    {<<>>} \cup
    (IF tree.type = "folder" /\ Has(tree, "children") /\ ~IsCollapsed(tree)
     THEN RenderedBelow(tree, <<>>)
     ELSE {})

\* A rendered node none of whose ancestors hides its children container.
Visible(tree, p) ==
    /\ p \in Rendered(tree)
    /\ \A k \in 0..(Len(p) - 1) : ~IsCollapsed(GetNode(tree, SubSeq(p, 1, k)))

\* The while loop of promptAddNode left after its first round.
defaultName_once(children, type, newName, counter) ==
    IF \E i \in 1..Len(children) :
           children[i].name = newName /\ children[i].type = type
    THEN (IF type = "folder" THEN "new_folder" ELSE "new_file")
             \o "_" \o ToString(counter)
             \o (IF type = "file" THEN ".txt" ELSE "")
    ELSE newName

\* The first free default name: the while loop of promptAddNode.
RECURSIVE defaultName(_, _, _, _)
defaultName(children, type, newName, counter) ==
    IF \E i \in 1..Len(children) :
           children[i].name = newName /\ children[i].type = type
    THEN defaultName(children, type,
                     (IF type = "folder" THEN "new_folder" ELSE "new_file")
                         \o "_" \o ToString(counter)
                         \o (IF type = "file" THEN ".txt" ELSE ""),
                     counter + 1)
    ELSE newName

\* The node promptAddNode creates.
newNode(id, name, type) ==
    IF type = "folder"
    THEN [id |-> id, name |-> name, type |-> type, children |-> <<>>,
          collapsed |-> FALSE]
    ELSE [id |-> id, name |-> name, type |-> type]

\* sibling.id !== node.id && sibling.name === newName && sibling.type === node.type
isDuplicate(siblings, node, newName) ==
    \E i \in 1..Len(siblings) :
        /\ IdOf(siblings[i]) # IdOf(node)
        /\ siblings[i].name = newName
        /\ siblings[i].type = node.type

\* The userOrder rule without its delete branch.
applyUserOrder_keep(node, newName, time) ==
    IF newName = "..." THEN With(node, "userOrder", time) ELSE node

\* The userOrder rule of saveName applied to the renamed node.
applyUserOrder(node, newName, time) ==
    IF newName = "..." THEN With(node, "userOrder", time)
    ELSE IF HasUserOrder(node) THEN Without(node, "userOrder")
    ELSE node

\* parentNode.children.filter(child => child.id !== nodeIdToDelete)
RECURSIVE filterOut(_, _)
filterOut(children, id) ==
    IF children = <<>> THEN <<>>
    ELSE (IF IdOf(Head(children)) # id THEN <<Head(children)>> ELSE <<>>)
             \o filterOut(Tail(children), id)

\* The conceptual root set up at DOMContentLoaded and by the load handler's
\* catch block.
emptyRoot ==
    [id |-> RootId, name |-> "project_root", type |-> "folder",
     children |-> <<>>]

-----------------------------------------------------------------------------
(* Sorting and the two text renderings (script.js).                         *)

\* The characters of the names used here, in the order of their primary
\* collation weights (blank, punctuation, digits, letters); a capital
\* letter has the primary weight of its small letter.
CollationOrder == " _-.()0123456789abcdefghijklmnopqrstuvwxyz"

Capitals == "ABCDEFGHIJKLMNOPQRSTUVWXYZ"

SmallLetters == "abcdefghijklmnopqrstuvwxyz"

IsCapital(c) == \E i \in 1..Len(Capitals) : SubSeq(Capitals, i, i) = c

toLowerCase(c) ==
    IF IsCapital(c)
    THEN LET i == CHOOSE j \in 1..Len(Capitals) : SubSeq(Capitals, j, j) = c
         IN  SubSeq(SmallLetters, i, i)
    ELSE c

primaryWeight(c) ==
    CHOOSE i \in 1..Len(CollationOrder) :
        SubSeq(CollationOrder, i, i) = toLowerCase(c)

\* The comparison of the primary weights, character by character.
RECURSIVE comparePrimary(_, _)
comparePrimary(a, b) ==
    IF a = "" /\ b = "" THEN 0
    ELSE IF a = "" THEN -1
    ELSE IF b = "" THEN 1
    ELSE IF Head(a) = Head(b) THEN comparePrimary(Tail(a), Tail(b))
    ELSE LET wa == primaryWeight(Head(a))
             wb == primaryWeight(Head(b))
         IN  IF wa < wb THEN -1
             ELSE IF wa > wb THEN 1
             ELSE comparePrimary(Tail(a), Tail(b))

\* The comparison of the case of two strings of equal primary weights: at
\* the first difference the small letter comes first.
RECURSIVE compareCase(_, _)
compareCase(a, b) ==
    IF a = b THEN 0
    ELSE IF Head(a) = Head(b) THEN compareCase(Tail(a), Tail(b))
    ELSE IF ~IsCapital(Head(a)) /\ IsCapital(Head(b)) THEN -1
    ELSE IF IsCapital(Head(a)) /\ ~IsCapital(Head(b)) THEN 1
    ELSE compareCase(Tail(a), Tail(b))

\* a.localeCompare(b) in the default locale.
localeCompare(a, b) ==
    LET primary == comparePrimary(a, b)
    IN  IF primary # 0 THEN primary ELSE compareCase(a, b)

\* The comparison without its first rule (folders before the rest).
customNodeSort_noFolderRule(a, b) ==
    IF ~HasUserOrder(a) /\ HasUserOrder(b) THEN -1
    ELSE IF HasUserOrder(a) /\ ~HasUserOrder(b) THEN 1
    ELSE IF HasUserOrder(a) /\ HasUserOrder(b) THEN a.userOrder - b.userOrder
    ELSE localeCompare(a.name, b.name)

customNodeSort(a, b) ==
    LET aIsFolder == a.type = "folder"
        bIsFolder == b.type = "folder"
        aHasUserOrder == HasUserOrder(a)
        bHasUserOrder == HasUserOrder(b)
    IN  IF aIsFolder /\ ~bIsFolder THEN -1
        ELSE IF ~aIsFolder /\ bIsFolder THEN 1
        ELSE IF ~aHasUserOrder /\ bHasUserOrder THEN -1
        ELSE IF aHasUserOrder /\ ~bHasUserOrder THEN 1
        ELSE IF aHasUserOrder /\ bHasUserOrder
        THEN a.userOrder - b.userOrder
        ELSE localeCompare(a.name, b.name)

\* One step of a stable sort: x goes behind the last element that does not
\* compare greater than it.
RECURSIVE insertSorted(_, _)
insertSorted(s, x) ==
    IF s = <<>> THEN <<x>>
    ELSE IF customNodeSort(s[Len(s)], x) > 0
    THEN Append(insertSorted(SubSeq(s, 1, Len(s) - 1), x), s[Len(s)])
    ELSE Append(s, x)

RECURSIVE sortFrom(_, _, _)
sortFrom(children, i, done) ==
    IF i > Len(children) THEN done
    ELSE sortFrom(children, i + 1, insertSorted(done, children[i]))

\* The children in storage order, as if the copy had not been sorted.
sorted_unsorted(children) == children

\* [...children].sort(customNodeSort): Array.prototype.sort is stable.
sorted(children) == sortFrom(children, 1, <<>>)

\* The four-character prefixes of generateAsciiTree.  The box-drawing
\* characters of the code (U+2514, U+251C, U+2500, U+2502) stand here as
\* the ASCII characters \, +, - and |, one for one.
LastConnector == "\\-- "

MidConnector == "+-- "

LastIndent == "    "

MidIndent == "|   "

RECURSIVE generateAsciiTree(_, _, _)
RECURSIVE asciiOfChildren(_, _, _)

\* The forEach of generateAsciiTree over the sorted children from i on.
asciiOfChildren(sortedChildren, i, indent) ==
    IF i > Len(sortedChildren) THEN ""
    ELSE generateAsciiTree(sortedChildren[i], indent,
                           i = Len(sortedChildren))
             \o asciiOfChildren(sortedChildren, i + 1, indent)

generateAsciiTree(node, indent, isLast) ==
    IF IdOf(node) = RootId
    THEN node.name \o "\n"
             \o asciiOfChildren(sorted(ChildrenOf(node)), 1, "")
    ELSE indent \o (IF isLast THEN LastConnector ELSE MidConnector)
             \o node.name \o "\n"
             \o asciiOfChildren(sorted(ChildrenOf(node)), 1,
                    indent \o (IF isLast THEN LastIndent ELSE MidIndent))

\* '  '.repeat(level)
RECURSIVE repeat(_, _)
repeat(s, count) == IF count = 0 THEN "" ELSE s \o repeat(s, count - 1)

RECURSIVE generateMarkdownTree_flat(_, _)
RECURSIVE markdownOfChildren_flat(_, _, _)

markdownOfChildren_flat(sortedChildren, i, level) ==
    IF i > Len(sortedChildren) THEN ""
    ELSE generateMarkdownTree_flat(sortedChildren[i], level)
             \o markdownOfChildren_flat(sortedChildren, i + 1, level)

\* The list rendering without the deeper indent of the children.
generateMarkdownTree_flat(node, level) ==
    repeat("  ", level) \o "- " \o node.name \o "\n"
        \o markdownOfChildren_flat(sorted(ChildrenOf(node)), 1, level)

RECURSIVE generateMarkdownTree(_, _)
RECURSIVE markdownOfChildren(_, _, _)

\* The forEach of generateMarkdownTree over the sorted children from i on.
markdownOfChildren(sortedChildren, i, level) ==
    IF i > Len(sortedChildren) THEN ""
    ELSE generateMarkdownTree(sortedChildren[i], level)
             \o markdownOfChildren(sortedChildren, i + 1, level)

generateMarkdownTree(node, level) ==
    repeat("  ", level) \o "- " \o node.name \o "\n"
        \o markdownOfChildren(sorted(ChildrenOf(node)), 1, level + 1)

\* Mutant: the cleanup does not descend into the children.
cleanNodeForSave_rootOnly(node) ==
    [f \in DOMAIN node \ {"id", "collapsed"} |-> node[f]]

\* cleanNodeForSave on a copy of node: id and collapsed deleted at every
\* depth.
RECURSIVE cleanNodeForSave(_)
cleanNodeForSave(node) ==
    [f \in DOMAIN node \ {"id", "collapsed"} |->
        IF f = "children"
        THEN [i \in 1..Len(node.children) |->
                 cleanNodeForSave(node.children[i])]
        ELSE node[f]]

-----------------------------------------------------------------------------
(* The renderer's handlers.                                                 *)

MaxId == 1

\* What Date.now() answers when a node is renamed to "...".
Times == {7}

NameInputs == {"  ", " a ", "..."}

RootNameInputs == {"  ", " project_root "}

NoSnapshot == [tag |-> "none"]

\* What 'generate-tree' answers to the renderer: the builder run on a few
\* folders, with and without an ignore list.
ScanRequests ==
    {<<Dir("p", TRUE, TRUE, NoGitignore, <<File("...")>>), {}>>,
     <<Dir("p", TRUE, TRUE, NoGitignore, <<File("...")>>), {"..."}>>,
     <<Dir("p", TRUE, FALSE, NoGitignore, <<>>), {}>>,
     <<Dir("p", FALSE, FALSE, DeniedGitignore, <<>>), {}>>}

ScanAnswers == {generateTree(r[1], FolderPath, r[2], FALSE) : r \in ScanRequests}

\* What 'load-tree-file' hands to the renderer: parsed JSON values.
LoadedTrees ==
    {[name |-> "s", type |-> "folder",
      children |-> <<[name |-> "a", type |-> "file"],
                     [id |-> "node-1", name |-> "...", type |-> "file"]>>],
     [name |-> "", type |-> "file", children |-> <<>>],
     [name |-> "s", type |-> "folder"],
     [name |-> "s", type |-> "folder", children |-> NotAnArray],
     [name |-> NotAString, type |-> "folder", children |-> <<>>],
     [name |-> "s", type |-> "error", children |-> <<>>],
     [type |-> "folder", children |-> <<>>],
     [json |-> "null"]}

\* refreshInteractiveTreeEditor as far as it changes the data: the walk of
\* assignIdsAndCollapsedState over the live tree.
\* The counter stays within cap.
RefreshWithin(tree, next, cap) ==
    LET walked == assignIdsAndCollapsedState(tree, next)
    IN  /\ walked.next <= cap + 1
        /\ currentTreeData' = walked.node
        /\ nextId' = walked.next
        /\ editorRendered' = TRUE

Refresh(tree, next) == RefreshWithin(tree, next, MaxId)

\* A handler that returns after a message to the user, the data and the
\* output untouched.
NoChange == UNCHANGED editorVars /\ UNCHANGED displayVars

Buttons ==
    {"showAsciiBtn", "showMarkdownBtn", "saveTreeBtn", "copyToClipboardBtn"}

NotSaved == [tag |-> "none"]

isTreeContentEmpty(tree) == Len(ChildrenOf(tree)) = 0

\* toggleTreeOutputButtons() on the tree the handler leaves behind.
toggleTreeOutputButtons ==
    disabled' = [b \in Buttons |-> isTreeContentEmpty(currentTreeData')]

\* setActiveDisplayButton(activeButton, inactiveButton) on the flags d.
setActiveDisplayButton(d, activeButton, inactiveButton) ==
    /\ activeBtn' = activeButton
    /\ disabled' = [d EXCEPT ![activeButton] = TRUE,
                             ![inactiveButton] = FALSE]

\* The two statements that end the handlers which changed the tree: the
\* ASCII text of the tree goes to treeOutput and the buttons follow the
\* tree.
UpdateOutput ==
    /\ treeOutput' = generateAsciiTree(currentTreeData', "", TRUE)
    /\ toggleTreeOutputButtons
    /\ UNCHANGED <<activeBtn, savedTree>>

\* DOMContentLoaded.
InitEditor ==
    /\ currentTreeData = assignIdsAndCollapsedState(emptyRoot, 1).node
    /\ nodeBeingEdited = NoId
    /\ nextId = 1
    /\ previousTreeData = NoSnapshot
    /\ editorRendered = TRUE
    /\ treeOutput = generateAsciiTree(currentTreeData, "", TRUE)
    /\ activeBtn = "showAsciiBtn"
    /\ disabled = [[b \in Buttons |-> isTreeContentEmpty(currentTreeData)]
                      EXCEPT !["showAsciiBtn"] = TRUE,
                             !["showMarkdownBtn"] = FALSE]
    /\ savedTree = NotSaved

\* Click on the name of a rendered node (the root's name included).
ClickName(p) ==
    /\ editorRendered
    /\ UNCHANGED buildVars
    /\ Visible(currentTreeData, p)
    /\ IdOf(GetNode(currentTreeData, p)) # nodeBeingEdited
    /\ nodeBeingEdited' = IdOf(GetNode(currentTreeData, p))
    /\ Refresh(currentTreeData, nextId)
    /\ UNCHANGED previousTreeData
    /\ UNCHANGED displayVars

\* saveName of the input rendered for the non-root node at p.
SaveName(p, value, time) ==
    LET node == GetNode(currentTreeData, p)
        newName == trim(value)
        parentNode == findNodeParent(currentTreeData, IdOf(node))
        siblings == IF parentNode.found
                    THEN GetNode(currentTreeData, parentNode.path).children
                    ELSE <<>>
        renamed == applyUserOrder([node EXCEPT !.name = newName], newName, time)
    IN  /\ editorRendered
        /\ p # <<>>
        /\ UNCHANGED buildVars
        /\ Visible(currentTreeData, p)
        /\ IdOf(node) = nodeBeingEdited
        /\ IF newName = ""
           THEN NoChange
           ELSE IF isDuplicate(siblings, node, newName)
           THEN NoChange
           ELSE /\ nodeBeingEdited' = NoId
                /\ Refresh(PutNode(currentTreeData, p, renamed), nextId)
                /\ UNCHANGED previousTreeData
                /\ UpdateOutput

\* saveRootName of the input rendered for the root.
SaveRootName(value) ==
    LET newName == trim(value)
    IN  /\ editorRendered
        /\ IdOf(currentTreeData) = nodeBeingEdited
        /\ UNCHANGED buildVars
        /\ IF newName = ""
           THEN NoChange
           ELSE /\ nodeBeingEdited' = NoId
                /\ Refresh([currentTreeData EXCEPT !.name = newName], nextId)
                /\ UNCHANGED previousTreeData
                /\ UpdateOutput

\* promptAddNode refuses: no node has the id, or the node is no folder.
addRefused(tree, parentNodeId) ==
    LET parentNode == findNodeById(tree, parentNodeId)
    IN  ~parentNode.found \/ GetNode(tree, parentNode.path).type # "folder"

\* What promptAddNode(parentNodeId, type) makes of the tree and of
\* nodeBeingEdited before it refreshes the editor, id being the id that
\* generateUniqueId hands out.
afterPromptAddNode(tree, edited, parentNodeId, type, id) ==
    IF addRefused(tree, parentNodeId)
    THEN [currentTreeData |-> tree, nodeBeingEdited |-> edited]
    ELSE LET parentNode == findNodeById(tree, parentNodeId)
             parent == GetNode(tree, parentNode.path)
             newName == defaultName(ChildrenOf(parent), type,
                            (IF type = "folder" THEN "new_folder"
                                                ELSE "new_file")
                                \o (IF type = "file" THEN ".txt" ELSE ""),
                            1)
             added == newNode(id, newName, type)
             pushed == With(parent, "children",
                            Append(ChildrenOf(parent), added))
             expanded == IF IsCollapsed(pushed)
                         THEN [pushed EXCEPT !.collapsed = FALSE]
                         ELSE pushed
         IN  [currentTreeData |-> PutNode(tree, parentNode.path, expanded),
              nodeBeingEdited |-> added.id]

\* promptAddNode(parentNodeId, type)
promptAddNode(parentNodeId, type) ==
    IF addRefused(currentTreeData, parentNodeId)
    THEN NoChange
    ELSE LET after == afterPromptAddNode(currentTreeData, nodeBeingEdited,
                                         parentNodeId, type,
                                         generateUniqueId(nextId))
             walked == assignIdsAndCollapsedState(after.currentTreeData,
                                                  nextId + 1)
         IN  /\ nextId <= MaxId
             /\ walked.next <= MaxId + 1
             /\ nodeBeingEdited' = after.nodeBeingEdited
             /\ currentTreeData' = walked.node
             /\ nextId' = walked.next
             /\ editorRendered' = TRUE
             /\ UNCHANGED previousTreeData
             /\ UpdateOutput

\* Click on the add-file or add-folder button of the root line or of a
\* rendered folder.
AddNode(p, type) ==
    /\ editorRendered
    /\ UNCHANGED buildVars
    /\ Visible(currentTreeData, p)
    /\ p # <<>> => GetNode(currentTreeData, p).type = "folder"
    /\ promptAddNode(IdOf(GetNode(currentTreeData, p)), type)

\* deleteNode(nodeIdToDelete), the confirm dialog being accepted.
deleteNode(nodeIdToDelete) ==
    LET nodeToDelete == findNodeById(currentTreeData, nodeIdToDelete)
        parentNode == findNodeParent(currentTreeData, nodeIdToDelete)
    IN  IF ~nodeToDelete.found
        THEN NoChange
        ELSE IF parentNode.found
        THEN LET parent == GetNode(currentTreeData, parentNode.path)
                 kept == [parent EXCEPT
                            !.children = filterOut(parent.children,
                                                   nodeIdToDelete)]
             IN  /\ nodeBeingEdited' =
                        IF nodeBeingEdited = nodeIdToDelete THEN NoId
                        ELSE nodeBeingEdited
                 /\ Refresh(PutNode(currentTreeData, parentNode.path, kept),
                            nextId)
                 /\ UNCHANGED previousTreeData
                 /\ UpdateOutput
        ELSE NoChange

\* Click on the delete button of a rendered non-root node.
DeleteNode(p) ==
    /\ editorRendered
    /\ UNCHANGED buildVars
    /\ p # <<>>
    /\ Visible(currentTreeData, p)
    /\ deleteNode(IdOf(GetNode(currentTreeData, p)))

\* The root's delete button leaving the children in place.
clearedRoot_keep(tree) == tree

\* The tree after the root's delete button cleared it.
clearedRoot(tree) == With(tree, "children", <<>>)

\* Click on the root's delete button, the confirm dialog being accepted.
ClearRoot ==
    /\ editorRendered
    /\ UNCHANGED buildVars
    /\ nodeBeingEdited' = NoId
    /\ Refresh(clearedRoot(currentTreeData), nextId)
    /\ UNCHANGED previousTreeData
    /\ UpdateOutput

\* Mutant: the flag is flipped whatever the type of the node found.
treeAfterToggle_anyType(tree, nodeId) ==
    LET node == findNodeById(tree, nodeId)
    IN  IF node.found
        THEN LET n == GetNode(tree, node.path)
             IN  PutNode(tree, node.path,
                         With(n, "collapsed", ~IsCollapsed(n)))
        ELSE tree

\* The tree after node.collapsed = !node.collapsed in toggleNodeCollapse,
\* the tree itself when the node is not found or is not a folder.
treeAfterToggle(tree, nodeId) ==
    LET node == findNodeById(tree, nodeId)
    IN  IF node.found /\ GetNode(tree, node.path).type = "folder"
        THEN LET n == GetNode(tree, node.path)
             IN  PutNode(tree, node.path,
                         With(n, "collapsed", ~IsCollapsed(n)))
        ELSE tree

\* toggleNodeCollapse(nodeId)
toggleNodeCollapse(nodeId) ==
    LET node == findNodeById(currentTreeData, nodeId)
    IN  IF node.found /\ GetNode(currentTreeData, node.path).type = "folder"
        THEN /\ Refresh(treeAfterToggle(currentTreeData, nodeId), nextId)
             /\ UNCHANGED <<nodeBeingEdited, previousTreeData>>
             /\ UNCHANGED displayVars
        ELSE NoChange

\* Click on the caret of the root line or of a rendered folder; the caret
\* is there only when the node has children.
ToggleCollapse(p) ==
    /\ editorRendered
    /\ UNCHANGED buildVars
    /\ Visible(currentTreeData, p)
    /\ p # <<>> => GetNode(currentTreeData, p).type = "folder"
    /\ Len(ChildrenOf(GetNode(currentTreeData, p))) > 0
    /\ toggleNodeCollapse(IdOf(GetNode(currentTreeData, p)))

\* 'Generate Tree' click up to the await: the snapshot is taken and the
\* request is in flight (one at a time).
GenerateClick ==
    /\ previousTreeData = NoSnapshot
    /\ UNCHANGED buildVars
    /\ previousTreeData' = jsonClone(currentTreeData)
    /\ UNCHANGED <<currentTreeData, nodeBeingEdited, nextId,
                   editorRendered>>
    /\ UNCHANGED displayVars

\* The generated root is a folder without children.
isEmptyResult(generatedRootNode) ==
    /\ generatedRootNode.type = "folder"
    /\ Len(ChildrenOf(generatedRootNode)) = 0

\* 'Generate Tree' click from the await on, the request having settled
\* with answer.
GenerateSettle(answer) ==
    /\ previousTreeData # NoSnapshot
    /\ UNCHANGED buildVars
    /\ previousTreeData' = NoSnapshot
    /\ UNCHANGED nodeBeingEdited
    /\ IF IsThrown(answer)
       THEN Refresh(previousTreeData, nextId)
       ELSE IF isEmptyResult(answer)
       THEN Refresh(previousTreeData, nextId)
       ELSE LET walked == assignIdsAndCollapsedState(
                              With(answer, "id", RootId), nextId)
            IN  Refresh(walked.node, walked.next)
    /\ UpdateOutput

\* What the load handler makes of a valid loadedTree before it refreshes
\* the editor: the root id and the default name are set and the ids and
\* collapsed flags are assigned from the counter value next on.
installLoaded(loadedTree, next) ==
    LET rooted == With(loadedTree, "id", RootId)
        named == IF rooted.name = ""
                 THEN [rooted EXCEPT !.name = "project_root"]
                 ELSE rooted
    IN  assignIdsAndCollapsedState(named, next)

\* 'Load Tree' click, 'load-tree-file' having answered with a parsed tree;
\* the counter stays within cap.  When assignIdsAndCollapsedState throws,
\* the catch block runs with the loaded tree already in currentTreeData.
LoadTreeWithin(loadedTree, cap) ==
    /\ UNCHANGED buildVars
    /\ IF ~isValidTreeStructure(loadedTree)
       THEN NoChange
       ELSE LET walked == installLoaded(loadedTree, nextId)
            IN  IF walked.thrown
                THEN /\ walked.next <= cap + 1
                     /\ currentTreeData' =
                            IF ~isValidTreeStructure(walked.node)
                            THEN emptyRoot
                            ELSE walked.node
                     /\ nextId' = walked.next
                     /\ editorRendered' = FALSE
                     /\ UNCHANGED <<nodeBeingEdited, previousTreeData>>
                     /\ treeOutput' = ""
                     /\ toggleTreeOutputButtons
                     /\ UNCHANGED <<activeBtn, savedTree>>
                ELSE /\ RefreshWithin(walked.node, walked.next, cap)
                     /\ UNCHANGED <<nodeBeingEdited, previousTreeData>>
                     /\ UpdateOutput

LoadTree(loadedTree) == LoadTreeWithin(loadedTree, MaxId)

\* The live tree the load handler leaves behind when 'load-tree-file'
\* answers with loadedTree.
treeAfterLoad(loadedTree) ==
    IF ~isValidTreeStructure(loadedTree)
    THEN currentTreeData
    ELSE installLoaded(loadedTree, nextId).node

\* 'Load Tree' click, 'load-tree-file' having thrown (unreadable file or
\* malformed JSON): the catch block.
LoadFailed ==
    /\ UNCHANGED buildVars
    /\ currentTreeData' = IF ~isValidTreeStructure(currentTreeData)
                          THEN emptyRoot
                          ELSE currentTreeData
    /\ editorRendered' = FALSE
    /\ UNCHANGED <<nodeBeingEdited, nextId, previousTreeData>>
    /\ treeOutput' = ""
    /\ toggleTreeOutputButtons
    /\ UNCHANGED <<activeBtn, savedTree>>

\* The children arrays left in the order the renderer sorted them in.
RECURSIVE treeAfterRender_inPlace(_)
treeAfterRender_inPlace(tree) ==
    IF Has(tree, "children")
    THEN [tree EXCEPT !.children =
             [i \in 1..Len(tree.children) |->
                 treeAfterRender_inPlace(sorted(tree.children)[i])]]
    ELSE tree

\* The tree a renderer leaves behind: it sorts [...node.children], a copy
\* of the array, and assigns to no property of a node.
treeAfterRender(tree) == tree

\* Click on 'Show ASCII'.
ShowAscii ==
    /\ ~disabled["showAsciiBtn"]
    /\ treeOutput' = generateAsciiTree(currentTreeData, "", TRUE)
    /\ currentTreeData' = treeAfterRender(currentTreeData)
    /\ setActiveDisplayButton(disabled, "showAsciiBtn", "showMarkdownBtn")
    /\ UNCHANGED savedTree
    /\ UNCHANGED <<nodeBeingEdited, nextId, previousTreeData, editorRendered>>
    /\ UNCHANGED buildVars

\* Click on 'Show Markdown'.
ShowMarkdown ==
    /\ ~disabled["showMarkdownBtn"]
    /\ treeOutput' = generateMarkdownTree(currentTreeData, 0)
    /\ currentTreeData' = treeAfterRender(currentTreeData)
    /\ setActiveDisplayButton(disabled, "showMarkdownBtn", "showAsciiBtn")
    /\ UNCHANGED savedTree
    /\ UNCHANGED <<nodeBeingEdited, nextId, previousTreeData, editorRendered>>
    /\ UNCHANGED buildVars

\* Click on 'Save Tree': the cleaned copy goes to saveTreeFile.
SaveTree ==
    /\ ~disabled["saveTreeBtn"]
    /\ IF Len(ChildrenOf(currentTreeData)) = 0
       THEN NoChange
       ELSE /\ savedTree' = cleanNodeForSave(jsonClone(currentTreeData))
            /\ UNCHANGED <<treeOutput, activeBtn, disabled>>
            /\ UNCHANGED editorVars
    /\ UNCHANGED buildVars

Next ==
    \/ \E p \in NodePaths(currentTreeData) : ClickName(p)
    \/ \E p \in NodePaths(currentTreeData), value \in NameInputs,
          time \in Times : SaveName(p, value, time)
    \/ \E value \in RootNameInputs : SaveRootName(value)
    \/ \E p \in NodePaths(currentTreeData), type \in {"file", "folder"} :
           AddNode(p, type)
    \/ \E p \in NodePaths(currentTreeData) : DeleteNode(p)
    \/ ClearRoot
    \/ \E p \in NodePaths(currentTreeData) : ToggleCollapse(p)
    \/ GenerateClick
    \/ \E answer \in ScanAnswers : GenerateSettle(answer)
    \/ \E loadedTree \in LoadedTrees : LoadTree(loadedTree)
    \/ LoadFailed

Init ==
    /\ InitEditor
    /\ fs = Dir("p", TRUE, TRUE, NoGitignore, <<>>)
    /\ ignoreList = {}
    /\ useGitignore = FALSE
    /\ generated = NotRun

Spec == Init /\ [][Next]_vars

-----------------------------------------------------------------------------
(* The renderings, the save and the load on a family of loaded trees.       *)

MaxSiblings == 2

MaxRenderId == 8

\* Nodes as a tree file holds them.  Two carry the same pinned key, two are
\* folders of the same name, one carries the id of the root.
RenderPool ==
    {[name |-> "a", type |-> "file"],
     [name |-> "B", type |-> "file"],
     [name |-> "e (cannot read)", type |-> "error"],
     [name |-> "...", type |-> "file", userOrder |-> 5],
     [name |-> "m", type |-> "file", userOrder |-> 5],
     [name |-> "...", type |-> "file", userOrder |-> 3],
     [name |-> "lib", type |-> "folder",
      children |-> <<[name |-> "z", type |-> "file"],
                     [name |-> "sub", type |-> "folder",
                      children |-> <<[name |-> "k", type |-> "file"]>>]>>],
     [name |-> "lib", type |-> "folder", collapsed |-> TRUE,
      children |-> <<[name |-> "y", type |-> "file"]>>],
     [id |-> RootId, name |-> "r", type |-> "folder",
      children |-> <<[name |-> "q", type |-> "file"]>>]}

\* The lists of up to MaxSiblings different nodes of the pool.
ChildLists ==
    UNION {{s \in [1..n -> RenderPool] :
               \A i, j \in 1..n : i # j => s[i] # s[j]} :
           n \in 0..MaxSiblings}

RenderFile(children) ==
    [name |-> "s", type |-> "folder", children |-> children]

\* The state after startup and one 'Load Tree' click on a file of the
\* family.
InitRender ==
    /\ \E children \in ChildLists :
           LET walked == installLoaded(RenderFile(children), 1)
           IN  /\ currentTreeData = walked.node
               /\ nextId = walked.next
    /\ nodeBeingEdited = NoId
    /\ previousTreeData = NoSnapshot
    /\ editorRendered = TRUE
    /\ treeOutput = generateAsciiTree(currentTreeData, "", TRUE)
    /\ activeBtn = "showAsciiBtn"
    /\ disabled = [b \in Buttons |-> isTreeContentEmpty(currentTreeData)]
    /\ savedTree = NotSaved
    /\ fs = Dir("p", TRUE, TRUE, NoGitignore, <<>>)
    /\ ignoreList = {}
    /\ useGitignore = FALSE
    /\ generated = NotRun

\* 'Load Tree' click on the file the last 'Save Tree' click wrote.
LoadSaved ==
    /\ savedTree # NotSaved
    /\ LoadTreeWithin(savedTree, MaxRenderId)

NextRender ==
    \/ ShowAscii
    \/ ShowMarkdown
    \/ SaveTree
    \/ LoadSaved

SpecRender == InitRender /\ [][NextRender]_vars

-----------------------------------------------------------------------------
(* The editor and the two display buttons on loaded trees that hold default *)
(* names.                                                                   *)

\* Tree files whose nodes all carry an id, so that a load takes no id from
\* the counter.
DisplayFiles ==
    {[name |-> "s", type |-> "folder",
      children |-> <<[id |-> "f0", name |-> "new_file.txt", type |-> "file"],
                     [id |-> "f1", name |-> "new_file_1.txt",
                      type |-> "file"],
                     [id |-> "d0", name |-> "new_folder", type |-> "folder",
                      collapsed |-> TRUE, children |-> <<>>]>>],
     [name |-> "s", type |-> "folder",
      children |-> <<[id |-> "f2", name |-> "new_file_2.txt",
                      type |-> "file"],
                     [id |-> "f0", name |-> "new_file.txt", type |-> "file"],
                     [id |-> "d1", name |-> "new_file.txt",
                      type |-> "folder", collapsed |-> FALSE,
                      children |-> <<>>]>>],
     [name |-> "", type |-> "file", children |-> <<>>]}

\* The name typed into the input of a node that was just added.
DisplayNameInputs == {" a "}

\* Loads, the four operations that change the tree (a rename being that of
\* the node just added, which is in edit mode) and the display buttons.
NextDisplay ==
    \/ \E loadedTree \in DisplayFiles : LoadTree(loadedTree)
    \/ \E p \in NodePaths(currentTreeData), value \in DisplayNameInputs,
          time \in Times : SaveName(p, value, time)
    \/ \E p \in NodePaths(currentTreeData), type \in {"file", "folder"} :
           AddNode(p, type)
    \/ \E p \in NodePaths(currentTreeData) : DeleteNode(p)
    \/ ClearRoot
    \/ ShowAscii
    \/ ShowMarkdown

SpecDisplay == Init /\ [][NextDisplay]_vars

-----------------------------------------------------------------------------
(* assignIdsAndCollapsedState on the trees the load handler hands to it.    *)

\* Nodes as a tree file holds them below its root: with and without id, with
\* and without collapsed, a folder without children, and a file that has
\* children.
AssignPool ==
    {[name |-> "a", type |-> "file"],
     [id |-> "x", name |-> "b", type |-> "file"],
     [name |-> "c (cannot read)", type |-> "error"],
     [name |-> "d", type |-> "folder",
      children |-> <<[name |-> "k", type |-> "file"]>>],
     [id |-> "y", name |-> "e", type |-> "folder", collapsed |-> TRUE,
      children |-> <<[name |-> "k", type |-> "folder", children |-> <<>>]>>],
     [name |-> "f", type |-> "file",
      children |-> <<[name |-> "g", type |-> "file"]>>],
     [name |-> "h", type |-> "folder"]}

AssignLists ==
    UNION {{s \in [1..n -> AssignPool] :
               \A i, j \in 1..n : i # j => s[i] # s[j]} :
           n \in 0..MaxSiblings}

\* The load handler after currentTreeData = loadedTree, the root's id set.
InitAssign ==
    /\ \E children \in AssignLists :
           currentTreeData = [id |-> RootId, name |-> "s", type |-> "folder",
                              children |-> children]
    /\ nextId \in 1..2
    /\ nodeBeingEdited = NoId
    /\ previousTreeData = NoSnapshot
    /\ editorRendered = TRUE
    /\ treeOutput = generateAsciiTree(emptyRoot, "", TRUE)
    /\ activeBtn = "showAsciiBtn"
    /\ disabled = [[b \in Buttons |-> TRUE] EXCEPT !["showMarkdownBtn"] = FALSE]
    /\ savedTree = NotSaved
    /\ fs = Dir("p", TRUE, TRUE, NoGitignore, <<>>)
    /\ ignoreList = {}
    /\ useGitignore = FALSE
    /\ generated = NotRun

\* assignIdsAndCollapsedState(currentTreeData)
AssignIds ==
    LET walked == assignIdsAndCollapsedState(currentTreeData, nextId)
    IN  /\ currentTreeData' = walked.node
        /\ nextId' = walked.next
        /\ UNCHANGED <<nodeBeingEdited, previousTreeData, editorRendered>>
        /\ UNCHANGED displayVars
        /\ UNCHANGED buildVars

NextAssign == AssignIds

SpecAssign == InitAssign /\ [][NextAssign]_vars

-----------------------------------------------------------------------------
(* The carets of the editor on a family of loaded trees.                    *)

\* Nodes as a tree file holds them, each with an id: files, an error node,
\* folders with and without children, expanded and collapsed, and a file
\* carrying the id of a folder.
TogglePool ==
    {[id |-> "f1", name |-> "a", type |-> "file"],
     [id |-> "e1", name |-> "c (cannot read)", type |-> "error"],
     [id |-> "d1", name |-> "lib", type |-> "folder", collapsed |-> FALSE,
      children |-> <<[id |-> "f2", name |-> "z", type |-> "file"],
                     [id |-> "d2", name |-> "sub", type |-> "folder",
                      collapsed |-> FALSE,
                      children |-> <<[id |-> "f3", name |-> "k",
                                      type |-> "file"]>>]>>],
     [id |-> "d3", name |-> "B", type |-> "folder", collapsed |-> TRUE,
      children |-> <<[id |-> "f4", name |-> "y", type |-> "file"]>>],
     [id |-> "d4", name |-> "m", type |-> "folder", collapsed |-> FALSE,
      children |-> <<>>],
     [id |-> "d1", name |-> "b", type |-> "file"]}

ToggleLists ==
    UNION {{s \in [1..n -> TogglePool] :
               \A i, j \in 1..n : i # j => s[i] # s[j]} :
           n \in 0..MaxSiblings}

\* The state after startup and one 'Load Tree' click on a file of the
\* family.
InitToggle ==
    /\ \E children \in ToggleLists :
           LET walked == installLoaded(RenderFile(children), 1)
           IN  /\ currentTreeData = walked.node
               /\ nextId = walked.next
    /\ nodeBeingEdited = NoId
    /\ previousTreeData = NoSnapshot
    /\ editorRendered = TRUE
    /\ treeOutput = generateAsciiTree(currentTreeData, "", TRUE)
    /\ activeBtn = "showAsciiBtn"
    /\ disabled = [[b \in Buttons |-> isTreeContentEmpty(currentTreeData)]
                      EXCEPT !["showAsciiBtn"] = TRUE,
                             !["showMarkdownBtn"] = FALSE]
    /\ savedTree = NotSaved
    /\ fs = Dir("p", TRUE, TRUE, NoGitignore, <<>>)
    /\ ignoreList = {}
    /\ useGitignore = FALSE
    /\ generated = NotRun

NextToggle == \E p \in NodePaths(currentTreeData) : ToggleCollapse(p)

SpecToggle == InitToggle /\ [][NextToggle]_vars

-----------------------------------------------------------------------------
(* The load handler on tree files some of which hold null for a node.       *)

JsonNull == [json |-> "null"]

\* What 'load-tree-file' hands to the renderer.
LoadFiles ==
    {[name |-> "s", type |-> "folder",
      children |-> <<[name |-> "a", type |-> "file"], JsonNull>>],
     [name |-> "s", type |-> "folder", children |-> <<JsonNull>>],
     [name |-> "u", type |-> "folder",
      children |-> <<[name |-> "v", type |-> "folder",
                      children |-> <<[name |-> "w", type |-> "file"],
                                     JsonNull>>]>>],
     [name |-> "t", type |-> "folder",
      children |-> <<[name |-> "b", type |-> "file"]>>],
     [name |-> "t", type |-> "folder",
      children |-> <<[name |-> "b", type |-> "file"],
                     [name |-> "c", type |-> "folder", collapsed |-> TRUE,
                      children |-> <<>>]>>],
     [name |-> "x", type |-> "folder",
      children |-> <<[id |-> "y", name |-> "y", type |-> "file"]>>],
     [name |-> "x", type |-> "folder",
      children |-> <<JsonNull, [name |-> "z", type |-> "file"]>>],
     [name |-> "x", type |-> "folder",
      children |-> <<[name |-> "z", type |-> "file"],
                     [name |-> "...", type |-> "file", userOrder |-> 4]>>],
     [name |-> "s", type |-> "folder",
      children |-> <<[name |-> "f", type |-> "file",
                      children |-> <<[name |-> "g", type |-> "file"]>>]>>],
     [name |-> "", type |-> "file", children |-> <<>>],
     [name |-> "s", type |-> "folder"],
     JsonNull}

NextLoad ==
    \/ \E loadedTree \in LoadFiles : LoadTreeWithin(loadedTree, MaxRenderId)
    \/ LoadFailed

SpecLoad == Init /\ [][NextLoad]_vars

-----------------------------------------------------------------------------
(* The builder run on its own.                                              *)

InitBuild ==
    /\ fs \in FileSystems
    /\ ignoreList \in IgnoreLists
    /\ useGitignore \in BOOLEAN
    /\ generated = NotRun
    /\ InitEditor

\* The renderer invokes 'generate-tree' and the handler settles.
GenerateTree ==
    /\ generated = NotRun
    /\ generated' = generateTree(fs, FolderPath, ignoreList, useGitignore)
    /\ UNCHANGED <<fs, ignoreList, useGitignore>>
    /\ UNCHANGED editorVars
    /\ UNCHANGED displayVars

NextBuild == GenerateTree

SpecBuild == InitBuild /\ [][NextBuild]_vars

-----------------------------------------------------------------------------
(* Relating a built tree to the file system it was built from.  A path is   *)
(* the sequence of entry names leading from the root object to an object.   *)

RECURSIVE PathsOf(_)
PathsOf(obj) ==
    {<<>>} \cup
    UNION {{<<obj.entries[i].name>> \o q : q \in PathsOf(obj.entries[i])} :
             i \in 1..Len(obj.entries)}

RECURSIVE ObjectAt(_, _)
ObjectAt(obj, q) ==
    IF q = <<>> THEN obj
    ELSE LET i == CHOOSE j \in 1..Len(obj.entries) :
                      obj.entries[j].name = Head(q)
         IN  ObjectAt(obj.entries[i], Tail(q))

IsPrefix(d, q) == Len(d) <= Len(q) /\ SubSeq(q, 1, Len(d)) = d

\* The names a node built for the entry called n can carry.
NamesOfEntry(n) == {n, n \o " (inaccessible)", n \o " (cannot read)"}

HasChildren(node) == "children" \in DOMAIN node

\* The positions among node's children that stand for the entry called n.
ChildrenFor(node, n) ==
    IF HasChildren(node)
    THEN {i \in 1..Len(node.children) : node.children[i].name \in NamesOfEntry(n)}
    ELSE {}

\* The tree has a node for the object at path q.
RECURSIVE Represents(_, _)
Represents(node, q) ==
    \/ q = <<>>
    \/ \E i \in ChildrenFor(node, Head(q)) :
           Represents(node.children[i], Tail(q))

\* The node standing for the object at path q (which the tree represents).
RECURSIVE NodeAt(_, _)
NodeAt(node, q) ==
    IF q = <<>> THEN node
    ELSE LET i == CHOOSE j \in ChildrenFor(node, Head(q)) : TRUE
         IN  NodeAt(node.children[i], Tail(q))

\* The tree with the node for path q replaced by repl.
RECURSIVE ReplaceAt(_, _, _)
ReplaceAt(node, q, repl) ==
    IF q = <<>> THEN repl
    ELSE LET i == CHOOSE j \in ChildrenFor(node, Head(q)) : TRUE
         IN  [node EXCEPT !.children[i] = ReplaceAt(@, Tail(q), repl)]

\* Every node of the tree other than its root.
RECURSIVE Descendants(_)
Descendants(node) ==
    IF HasChildren(node)
    THEN UNION {{node.children[i]} \cup Descendants(node.children[i]) :
                  i \in 1..Len(node.children)}
    ELSE {}

\* The file system with the object at path q changed by f.
RECURSIVE ChangeAt(_, _, _)
ChangeAt(obj, q, new) ==
    IF q = <<>> THEN new
    ELSE LET i == CHOOSE j \in 1..Len(obj.entries) :
                      obj.entries[j].name = Head(q)
         IN  [obj EXCEPT !.entries[i] = ChangeAt(@, Tail(q), new)]

Accessible(obj) == [obj EXCEPT !.statOk = TRUE, !.readdirOk = (obj.kind = "dir")]

WithoutGitignore(obj) == [obj EXCEPT !.gitignore = NoGitignore]

Ran == generated # NotRun

Returned == Ran /\ IsNode(generated)

Build(f, list) == generateTree(f, FolderPath, list, useGitignore)

-----------------------------------------------------------------------------
(* Claims about the builder.                                                *)

\* A path with a non-root element that is in the explicit ignore list.
UnderExplicitIgnore(q) == \E k \in 1..Len(q) : q[k] \in ignoreList

\* C1: the built tree has no node for a non-root entry whose basename is in
\* the explicit ignore list, and none for any descendant of such an entry;
\* no non-root node carries an explicitly ignored name.
C1_ExplicitIgnoreExcludes ==
    Returned =>
        /\ \A q \in PathsOf(fs) :
               UnderExplicitIgnore(q) => ~Represents(generated, q)
        /\ \A n \in Descendants(generated) :
               \A x \in ignoreList : n.name \notin NamesOfEntry(x)

\* C1 witness: an entry that the build without the list represents is
\* left out because of the list, together with an entry beneath it.
C1_Witness ==
    /\ Returned
    /\ \E q \in PathsOf(fs) :
           /\ Len(q) = 2
           /\ q[1] \in ignoreList
           /\ Represents(Build(fs, {}), q)
           /\ ~Represents(generated, q)
           /\ ~Represents(generated, <<q[1]>>)

RootPlainFiles ==
    {i \in 1..Len(fs.entries) :
        /\ fs.entries[i].kind = "file"
        /\ fs.entries[i].statOk
        /\ fs.entries[i].name \notin
               combinedIgnoreSet(fs, ignoreList, useGitignore)}

Fails(obj) == ~obj.statOk \/ (obj.kind = "dir" /\ ~obj.readdirOk)

IsErrorLeaf(node) == node.type = "error" /\ ~HasChildren(node)

\* C3: build throws exactly when the root cannot be stat'ed; a root that
\* cannot be listed is returned as an Error node without children; and for
\* a non-root object that fails and that the build would represent were it
\* accessible, the tree is the tree of that build with an Error node without
\* children in the place of the object's subtree, all else being equal.
C3_OnlyRootStatIsFatal ==
    Ran =>
        /\ IsThrown(generated) <=> ~fs.statOk
        /\ (fs.statOk /\ ~fs.readdirOk) => IsErrorLeaf(generated)
        /\ \A q \in PathsOf(fs) \ {<<>>} :
               LET obj == ObjectAt(fs, q)
                   healed == Build(ChangeAt(fs, q, Accessible(obj)), ignoreList)
               IN  (Fails(obj) /\ IsNode(healed) /\ Represents(healed, q)) =>
                       /\ IsNode(generated)
                       /\ Represents(generated, q)
                       /\ IsErrorLeaf(NodeAt(generated, q))
                       /\ generated =
                              ReplaceAt(healed, q, NodeAt(generated, q))

\* C3 witness: a subdirectory fails, an Error node stands for it and a
\* sibling scanned after it is in the tree.
C3_Witness ==
    /\ Returned
    /\ generated.type = "folder"
    /\ Len(generated.children) = 2
    /\ generated.children[1].type = "error"
    /\ generated.children[2].type \in {"file", "folder"}
    /\ Fails(fs.entries[1])

\* C4: with ignore files enabled, removing the ignore file of a directory D
\* changes nothing about which objects outside D's subtree are in the tree,
\* nor about whether the build throws.
C4_PatternsStayInSubtree ==
    Ran =>
        \A d \in PathsOf(fs) :
            LET bare == Build(ChangeAt(fs, d, WithoutGitignore(ObjectAt(fs, d))),
                              ignoreList)
            IN  /\ IsThrown(bare) <=> IsThrown(generated)
                /\ IsNode(generated) =>
                       \A q \in PathsOf(fs) :
                           ~IsPrefix(d, q) =>
                               (Represents(generated, q) <=> Represents(bare, q))

\* C4 witness: the ignore file of a subdirectory excludes an entry inside
\* it while the sibling's entry of the same name stays in the tree.
C4_Witness ==
    /\ Returned
    /\ useGitignore
    /\ \E d \in PathsOf(fs), n \in {"b", "c"} :
           /\ Len(d) = 1
           /\ n \in Range(getGitignorePatterns(ObjectAt(fs, d)))
           /\ Represents(generated, d)
           /\ ~Represents(generated, d \o <<n>>)
           /\ Represents(Build(ChangeAt(fs, d, WithoutGitignore(ObjectAt(fs, d))),
                               ignoreList), d \o <<n>>)
           /\ \E e \in PathsOf(fs) :
                  /\ ~IsPrefix(d, e)
                  /\ e # <<>>
                  /\ e[Len(e)] = n
                  /\ Represents(generated, e)

-----------------------------------------------------------------------------
(* The live tree of the editor.                                             *)

\* The ids carried by the nodes of tree, one per node.
IdsAt(tree) == [p \in NodePaths(tree) |-> IdOf(GetNode(tree, p))]

\* No folder of tree has two children of the same kind with the same name.
SiblingNamesUnique(tree) ==
    \A p \in NodePaths(tree) :
        LET children == ChildrenOf(GetNode(tree, p))
        IN  \A i, j \in 1..Len(children) :
                (i # j /\ children[i].type = children[j].type)
                    => children[i].name # children[j].name

\* Another child of the parent of the node at p has the node's kind and
\* is called name.
SameKindSiblingNamed(tree, p, name) ==
    LET parentPath == SubSeq(p, 1, Len(p) - 1)
        children == ChildrenOf(GetNode(tree, parentPath))
    IN  \E i \in 1..Len(children) :
            /\ i # p[Len(p)]
            /\ children[i].type = GetNode(tree, p).type
            /\ children[i].name = name

\* A step of insertChild, rename, deleteNode, root-clear or toggleCollapse.
EditStep ==
    \/ \E p \in NodePaths(currentTreeData), value \in NameInputs,
          time \in Times : SaveName(p, value, time)
    \/ \E p \in NodePaths(currentTreeData), type \in {"file", "folder"} :
           AddNode(p, type)
    \/ \E p \in NodePaths(currentTreeData) : DeleteNode(p)
    \/ ClearRoot
    \/ \E p \in NodePaths(currentTreeData) : ToggleCollapse(p)

\* A step that leaves the edit mode a node was in.
EditEnded == nodeBeingEdited # NoId /\ nodeBeingEdited' = NoId

\* C5: in every reachable state of the editor the live tree's root carries
\* the reserved id 'root' and is of kind folder.
C5_RootIsFolderWithRootId ==
    /\ IdOf(currentTreeData) = RootId
    /\ currentTreeData.type = "folder"

\* C6: in every reachable state of the editor no two nodes of the live tree
\* have the same id (so no non-root node has the root's id either).
C6_IdsUnique ==
    \A p, q \in NodePaths(currentTreeData) :
        p # q => IdsAt(currentTreeData)[p] # IdsAt(currentTreeData)[q]

\* C7: an insertChild, rename, deleteNode, root-clear or toggleCollapse step
\* taken from a tree without two same-kind siblings of one name leaves a
\* tree without two same-kind siblings of one name.
C7_EditsKeepSiblingNamesUnique ==
    [][(EditStep /\ SiblingNamesUnique(currentTreeData))
           => SiblingNamesUnique(currentTreeData')]_vars

\* C8 as stated: in every reachable state every node of the live tree
\* carries userOrder if and only if its name is exactly "...".
C8_UserOrderIffDots ==
    \A p \in NodePaths(currentTreeData) :
        HasUserOrder(GetNode(currentTreeData, p))
            <=> GetNode(currentTreeData, p).name = "..."

\* C8 as the code has it: after every accepted rename of a non-root node by
\* saveName, that node carries userOrder if and only if its new name is
\* exactly "...", and the userOrder it then carries is the time of the
\* rename.
C8_RenameSetsUserOrder ==
    [][\A p \in NodePaths(currentTreeData), value \in NameInputs,
          time \in Times :
           (EditEnded /\ SaveName(p, value, time))
               => LET renamed == GetNode(currentTreeData', p)
                  IN  /\ renamed.name = trim(value)
                      /\ HasUserOrder(renamed) <=> renamed.name = "..."
                      /\ HasUserOrder(renamed) => renamed.userOrder = time]_vars

\* A non-root node renamed to "..." carries the time of its rename.
C8_Witness ==
    \E p \in NodePaths(currentTreeData) :
        /\ p # <<>>
        /\ GetNode(currentTreeData, p).name = "..."
        /\ HasUserOrder(GetNode(currentTreeData, p))
        /\ GetNode(currentTreeData, p).userOrder \in Times

C10_DuplicateRenameRejected ==
    [][\A p \in NodePaths(currentTreeData), value \in NameInputs,
          time \in Times :
           (SaveName(p, value, time)
               /\ SameKindSiblingNamed(currentTreeData, p, trim(value)))
               => currentTreeData' = currentTreeData]_vars

-----------------------------------------------------------------------------
(* Rendering, saving and loading.                                           *)

Ascii(tree) == generateAsciiTree(tree, "", TRUE)

Markdown(tree) == generateMarkdownTree(tree, 0)

\* A step that loads the file which a save of the live tree produced.
SavedTreeLoaded ==
    /\ savedTree # NotSaved
    /\ savedTree = cleanNodeForSave(jsonClone(currentTreeData))
    /\ currentTreeData' = installLoaded(savedTree, nextId).node
    /\ nextId' = installLoaded(savedTree, nextId).next

\* C11: loading the object produced by saving the live tree yields a tree
\* whose ASCII rendering is that of the tree that was saved.
C11_SaveLoadKeepsAscii ==
    [][SavedTreeLoaded => Ascii(currentTreeData') = Ascii(currentTreeData)]_vars

\* Some node below the root carries the id of the root.
RootIdBelow(tree) ==
    \E p \in NodePaths(tree) : p # <<>> /\ IdOf(GetNode(tree, p)) = RootId

IsFolder(node) == node.type = "folder"

\* The list s has the elements of the list t, each as often as t has it.
IsPermutationOf(s, t) ==
    /\ Len(s) = Len(t)
    /\ \E f \in [1..Len(s) -> 1..Len(s)] :
           /\ \A i, j \in 1..Len(s) : i # j => f[i] # f[j]
           /\ \A i \in 1..Len(s) : s[i] = t[f[i]]

\* The order the claim asks of a sibling list.
InSorterOrder(s) ==
    \A i, j \in 1..Len(s) :
        i < j =>
            /\ IsFolder(s[j]) => IsFolder(s[i])
            /\ (IsFolder(s[i]) <=> IsFolder(s[j])) =>
                   /\ HasUserOrder(s[i]) => HasUserOrder(s[j])
                   /\ (~HasUserOrder(s[i]) /\ ~HasUserOrder(s[j])) =>
                          localeCompare(s[i].name, s[j].name) <= 0
                   /\ (HasUserOrder(s[i]) /\ HasUserOrder(s[j])) =>
                          s[i].userOrder <= s[j].userOrder

\* C12: the sibling list the renderers emit for any node of the live tree
\* holds the node's children with the folders before the other nodes, in
\* each of the two groups the nodes without a pinned-order key before those
\* with one, the former in ascending order of name and the latter in
\* ascending order of key.
C12_SiblingsInSorterOrder ==
    \A p \in NodePaths(currentTreeData) :
        LET children == ChildrenOf(GetNode(currentTreeData, p))
        IN  /\ IsPermutationOf(sorted(children), children)
            /\ InSorterOrder(sorted(children))

\* 'Show ASCII' was clicked on a tree whose root holds, in this storage
\* order, a pinned file and a folder that holds a file and a folder.
C12_Witness ==
    /\ disabled["showAsciiBtn"]
    /\ treeOutput = Ascii(currentTreeData)
    /\ Len(ChildrenOf(currentTreeData)) = 2
    /\ HasUserOrder(currentTreeData.children[1])
    /\ IsFolder(currentTreeData.children[2])
    /\ Len(ChildrenOf(currentTreeData.children[2])) = 2
    /\ ~IsFolder(currentTreeData.children[2].children[1])
    /\ IsFolder(currentTreeData.children[2].children[2])
    /\ sorted(currentTreeData.children) # currentTreeData.children

Bijections(n) ==
    {f \in [1..n -> 1..n] : \A i, j \in 1..n : i # j => f[i] # f[j]}

\* The trees that differ from tree in the storage order of the children of
\* the node at p only.
Reordered(tree, p) ==
    LET node == GetNode(tree, p)
        children == ChildrenOf(node)
    IN  {PutNode(tree, p,
                 With(node, "children",
                      [i \in 1..Len(children) |-> children[f[i]]])) :
         f \in Bijections(Len(children))}

\* The Sorter tells any two children of the node apart.
NoTies(node) ==
    \A i, j \in 1..Len(ChildrenOf(node)) :
        i # j => customNodeSort(node.children[i], node.children[j]) # 0

RECURSIVE SortedTree(_)
SortedTree(node) ==
    IF Has(node, "children")
    THEN [node EXCEPT !.children =
             [i \in 1..Len(node.children) |->
                 SortedTree(sorted(node.children)[i])]]
    ELSE node

\* The paths of the nodes of node in depth-first pre-order.
RECURSIVE PreOrder(_)
RECURSIVE PreOrderFrom(_, _)
PreOrderFrom(node, i) ==
    IF i > Len(ChildrenOf(node)) THEN <<>>
    ELSE [k \in 1..Len(PreOrder(node.children[i])) |->
             <<i>> \o PreOrder(node.children[i])[k]]
         \o PreOrderFrom(node, i + 1)

PreOrder(node) == <<<<>>>> \o PreOrderFrom(node, 1)

ParentPath(p) == SubSeq(p, 1, Len(p) - 1)

\* The node at p is the last of its siblings.
IsLastAt(tree, p) ==
    p[Len(p)] = Len(ChildrenOf(GetNode(tree, ParentPath(p))))

\* The indent the claim gives the node at p, which is not the root.
RECURSIVE IndentAt(_, _)
IndentAt(tree, p) ==
    IF Len(p) = 1 THEN ""
    ELSE IndentAt(tree, ParentPath(p))
             \o (IF IsLastAt(tree, ParentPath(p)) THEN LastIndent
                                                   ELSE MidIndent)

\* The line the claim gives the node at p.
AsciiLineAt(tree, p) ==
    IF p = <<>> THEN tree.name \o "\n"
    ELSE IndentAt(tree, p)
             \o (IF IsLastAt(tree, p) THEN LastConnector ELSE MidConnector)
             \o GetNode(tree, p).name \o "\n"

RECURSIVE JoinLines(_, _)
JoinLines(lines, i) ==
    IF i > Len(lines) THEN "" ELSE lines[i] \o JoinLines(lines, i + 1)

AsciiFormat(tree) ==
    LET ordered == SortedTree(tree)
        paths == PreOrder(ordered)
    IN  JoinLines([k \in 1..Len(paths) |-> AsciiLineAt(ordered, paths[k])], 1)

\* C14: the ASCII text of the live tree is the root's name on a line of its
\* own followed, in depth-first pre-order over the sorted sibling lists, by
\* one line per other node made of its indent, its connector and its name;
\* the connector tells the last sibling from the others, the children of
\* the root have the empty indent and a deeper node has the indent of its
\* parent extended by four blanks if the parent is a last sibling and by a
\* bar and three blanks otherwise.
C14_AsciiFormat == Ascii(currentTreeData) = AsciiFormat(currentTreeData)

\* The line the claim gives the node at p in the list text of node.
MarkdownLineAt(node, p) ==
    repeat(" ", 2 * Len(p)) \o "- " \o GetNode(node, p).name \o "\n"

MarkdownFormat(node) ==
    LET ordered == SortedTree(node)
        paths == PreOrder(ordered)
    IN  JoinLines([k \in 1..Len(paths) |-> MarkdownLineAt(ordered, paths[k])],
                  1)

\* C15: the list text of any node of the live tree has one line for every
\* node of its subtree, in depth-first pre-order over the sorted sibling
\* lists; the line is made of two blanks per level, "- ", the name and a
\* newline, the level being 0 for the node the text is asked of and one more
\* than the parent's for every other node.
C15_MarkdownFormat ==
    \A p \in NodePaths(currentTreeData) :
        LET node == GetNode(currentTreeData, p)
        IN  /\ generateMarkdownTree(node, 0) = MarkdownFormat(node)
            /\ Len(PreOrder(SortedTree(node))) = Cardinality(NodePaths(node))

\* The list text is shown for a tree with nodes three levels below the
\* root, whose children are stored in another order than the rendered one.
C15_Witness ==
    /\ activeBtn = "showMarkdownBtn"
    /\ treeOutput = Markdown(currentTreeData)
    /\ \E p \in NodePaths(currentTreeData) : Len(p) = 3
    /\ sorted(ChildrenOf(currentTreeData)) # ChildrenOf(currentTreeData)

\* A step in which a click on one of the two display buttons was served:
\* the button clicked is disabled from then on.
ShowClicked ==
    \E b \in {"showAsciiBtn", "showMarkdownBtn"} :
        ~disabled[b] /\ disabled'[b]

-----------------------------------------------------------------------------
(* Loading and scanning.                                                    *)

\* The shape the claim asks of a loaded object: a string name, the kind
\* folder or file, and an array of children.
PassesValidateShape(loadedTree) ==
    /\ "json" \notin DOMAIN loadedTree
    /\ {"name", "type", "children"} \subseteq DOMAIN loadedTree
    /\ loadedTree.name # NotAString
    /\ loadedTree.type = "folder" \/ loadedTree.type = "file"
    /\ loadedTree.children # NotAnArray

\* C17: whatever object a load hands over, the live tree is replaced only
\* if the object has a string name, the kind folder or file and an array of
\* children; an object without that shape leaves the live tree as it is,
\* and an object with it leaves a live root that carries the root id and a
\* name that is not empty.
C17_LoadOnlyValidShape ==
    \A loadedTree \in LoadedTrees :
        IF PassesValidateShape(loadedTree)
        THEN /\ IdOf(treeAfterLoad(loadedTree)) = RootId
             /\ treeAfterLoad(loadedTree).name # ""
             /\ treeAfterLoad(loadedTree).name # NotAString
        ELSE treeAfterLoad(loadedTree) = currentTreeData

\* The live tree is the one a load made of the object with the empty name.
C17_Witness ==
    /\ currentTreeData.type = "file"
    /\ currentTreeData.name = "project_root"
    /\ IdOf(currentTreeData) = RootId

\* The content of a tree: id, name, kind, children, collapsed flag (a
\* missing flag counts as false) and pinned key of every node.
RECURSIVE Content(_)
Content(node) ==
    [id |-> IdOf(node), name |-> node.name, type |-> node.type,
     collapsed |-> IsCollapsed(node),
     userOrder |-> IF HasUserOrder(node) THEN <<node.userOrder>> ELSE <<>>,
     children |-> [i \in 1..Len(ChildrenOf(node)) |->
                      Content(node.children[i])]]

\* C18: when the scan in flight settles with a failure or with a root that
\* has no children, the live tree afterwards is content-equal to the tree
\* as it was when the scan was started.
C18_FailedOrEmptyScanKeepsTree ==
    [][\A answer \in ScanAnswers :
           (GenerateSettle(answer)
               /\ (IsThrown(answer) \/ Len(ChildrenOf(answer)) = 0))
               => Content(currentTreeData') = Content(previousTreeData)]_vars

-----------------------------------------------------------------------------
(* Adding a node, and the output text after an edit.                        *)

BaseName(type) == IF type = "folder" THEN "new_folder" ELSE "new_file.txt"

\* The base name with _k behind it.
AppendedName(type, k) == BaseName(type) \o "_" \o ToString(k)

\* The base name with _k behind its stem: behind new_folder, and between
\* new_file and .txt.
NumberedName(type, k) ==
    IF type = "folder" THEN "new_folder_" \o ToString(k)
    ELSE "new_file_" \o ToString(k) \o ".txt"

Taken(children, type, name) ==
    \E i \in 1..Len(children) :
        children[i].type = type /\ children[i].name = name

\* The base name if it is free among the children of the kind, else the
\* name of the smallest number that is.
FreeName(children, type, Numbered(_, _)) ==
    IF ~Taken(children, type, BaseName(type)) THEN BaseName(type)
    ELSE LET k == CHOOSE n \in 1..(Len(children) + 1) :
                      /\ ~Taken(children, type, Numbered(type, n))
                      /\ \A j \in 1..(n - 1) :
                             Taken(children, type, Numbered(type, j))
         IN  Numbered(type, k)

IdsIn(tree) == {IdOf(GetNode(tree, p)) : p \in NodePaths(tree)}

NodeBut(node, fields) == [f \in DOMAIN node \ fields |-> node[f]]

\* What the claim says of promptAddNode for every id and kind it may be
\* called with in the current state, the numbered names being Numbered.
InsertChildAsClaimed(Numbered(_, _)) ==
    \A parentId \in IdsIn(currentTreeData) \cup {"missing"},
       type \in {"file", "folder"} :
        LET after == afterPromptAddNode(currentTreeData, nodeBeingEdited,
                                        parentId, type,
                                        generateUniqueId(nextId))
            parentNode == findNodeById(currentTreeData, parentId)
        IN  IF parentNode.found
               /\ GetNode(currentTreeData, parentNode.path).type = "folder"
            THEN LET before == GetNode(currentTreeData, parentNode.path)
                     now == GetNode(after.currentTreeData, parentNode.path)
                     n == Len(ChildrenOf(before))
                 IN  /\ Len(ChildrenOf(now)) = n + 1
                     /\ SubSeq(now.children, 1, n) = ChildrenOf(before)
                     /\ now.children[n + 1].type = type
                     /\ now.children[n + 1].name
                            = FreeName(ChildrenOf(before), type, Numbered)
                     /\ ~IsCollapsed(now)
                     /\ after.nodeBeingEdited = IdOf(now.children[n + 1])
                     /\ NodeBut(now, {"children", "collapsed"})
                            = NodeBut(before, {"children", "collapsed"})
                     /\ PutNode(after.currentTreeData, parentNode.path,
                                before) = currentTreeData
            ELSE /\ after.currentTreeData = currentTreeData
                 /\ after.nodeBeingEdited = nodeBeingEdited

\* C19 as stated: an add on a folder appends exactly one child of the kind
\* asked for, named by the base name (new_folder, new_file.txt) if no child
\* of that kind has it and else by the base name followed by _k for the
\* smallest k = 1, 2, ... that gives a free name; the folder is expanded and
\* the new node is the one in edit mode; an add on an id that no node has
\* or that a non-folder has changes nothing.
C19_InsertChildAppendsSuffix == InsertChildAsClaimed(AppendedName)

\* C19, amended: the same, the numbered names being new_folder_k for a
\* folder and new_file_k.txt for a file.
C19_InsertChildNumbersStem == InsertChildAsClaimed(NumberedName)

\* A file was added to a root that held new_file.txt and new_file_1.txt;
\* it is in edit mode.
C19_Witness ==
    /\ nodeBeingEdited = generateUniqueId(1)
    /\ \E i \in 1..Len(ChildrenOf(currentTreeData)) :
           /\ IdOf(currentTreeData.children[i]) = nodeBeingEdited
           /\ currentTreeData.children[i].name = "new_file_2.txt"

\* The text of the tree in the format whose button carries 'active'.
SelectedRendering(button, tree) ==
    IF button = "showAsciiBtn" THEN Ascii(tree) ELSE Markdown(tree)

\* A step of insertChild, rename, deleteNode or of the root's delete button.
TreeEdit ==
    \/ \E p \in NodePaths(currentTreeData), value \in DisplayNameInputs,
          time \in Times : SaveName(p, value, time)
    \/ \E p \in NodePaths(currentTreeData), type \in {"file", "folder"} :
           AddNode(p, type)
    \/ \E p \in NodePaths(currentTreeData) : DeleteNode(p)
    \/ ClearRoot

\* C20: after an add, a rename, a delete or a clearing of the root that
\* changed the tree, the output text is the text of the tree as it is now,
\* in the format that is selected.
C20_OutputFollowsEdits ==
    [][(currentTreeData' # currentTreeData /\ TreeEdit)
          => treeOutput' = SelectedRendering(activeBtn', currentTreeData')]_vars
-----------------------------------------------------------------------------
(* Saving.                                                                  *)

\* saved has the shape of live, and at every path the node of saved has the
\* properties of the node of live other than id and collapsed, with the same
\* values (for children: the same number of children, compared path by path).
StrippedCopy(live, saved) ==
    /\ NodePaths(saved) = NodePaths(live)
    /\ \A p \in NodePaths(live) :
           LET l == GetNode(live, p)
               c == GetNode(saved, p)
           IN  /\ DOMAIN c = DOMAIN l \ {"id", "collapsed"}
               /\ \A f \in DOMAIN c \ {"children"} : c[f] = l[f]
               /\ Has(c, "children") => Len(c.children) = Len(l.children)

\* C21: the object a 'Save Tree' click hands to saveTreeFile is the live tree
\* with id and collapsed removed from every node at every depth and nothing
\* else changed (name, type, children order, userOrder kept), and the click
\* leaves the live tree, with its ids and collapsed flags, as it was.
C21_SaveStripsIdAndCollapsed ==
    [][(SaveTree /\ Len(ChildrenOf(currentTreeData)) > 0)
         => /\ StrippedCopy(currentTreeData, savedTree')
            /\ currentTreeData' = currentTreeData]_vars

\* A tree was saved whose nodes two levels down carry an id and a collapsed
\* flag and one of whose nodes carries userOrder; the saved object is the
\* stripped copy of the live tree.
C21_Witness ==
    /\ savedTree # NotSaved
    /\ StrippedCopy(currentTreeData, savedTree)
    /\ \E p \in NodePaths(currentTreeData) :
           /\ Len(p) = 2
           /\ Has(GetNode(currentTreeData, p), "id")
           /\ Has(GetNode(currentTreeData, p), "collapsed")
    /\ \E p \in NodePaths(currentTreeData) :
           /\ HasUserOrder(GetNode(currentTreeData, p))
           /\ HasUserOrder(GetNode(savedTree, p))

-----------------------------------------------------------------------------
(* Assigning ids and collapsed flags.                                       *)

\* C22: after assignIdsAndCollapsedState(tree) every node reachable through
\* children has an id and every folder a boolean collapsed; the ids and the
\* collapsed values the tree had before are unchanged; a second call changes
\* nothing.
C22_AssignIdsCompletes ==
    [][AssignIds =>
         LET before == currentTreeData
             after == currentTreeData'
         IN  /\ NodePaths(after) = NodePaths(before)
             /\ \A p \in NodePaths(after) :
                    LET b == GetNode(before, p)
                        a == GetNode(after, p)
                    IN  /\ Has(a, "id")
                        /\ a.type = "folder" =>
                               Has(a, "collapsed") /\ a.collapsed \in BOOLEAN
                        /\ Has(b, "id") => a.id = b.id
                        /\ Has(b, "collapsed") => a.collapsed = b.collapsed
             /\ assignIdsAndCollapsedState(after, nextId').node = after]_vars

-----------------------------------------------------------------------------
(* Deleting and collapsing.                                                 *)

\* The sequence without its element i.
DropAt(seq, i) == SubSeq(seq, 1, i - 1) \o SubSeq(seq, i + 1, Len(seq))

\* The tree without the node at p (not the root) and what is beneath it:
\* the parent's other children in their order, everything else as it was.
RemovedAt(tree, p) ==
    LET parent == GetNode(tree, ParentPath(p))
    IN  PutNode(tree, ParentPath(p),
                [parent EXCEPT !.children = DropAt(@, p[Len(p)])])

UnknownId == "node-0"

\* C23: deleteNode with the id of a node below the root removes exactly one
\* node carrying that id, with its subtree, from its parent's children, all
\* other nodes and the order of the remaining siblings being unchanged;
\* deleteNode with an id that no node carries changes nothing.
C23_DeleteRemovesExactlyTheNode ==
    [][\A id \in IdsIn(currentTreeData) \cup {UnknownId} :
          deleteNode(id) =>
              LET below == {p \in NodePaths(currentTreeData) \ {<<>>} :
                               IdOf(GetNode(currentTreeData, p)) = id}
              IN  /\ below # {} =>
                         \E p \in below :
                             currentTreeData' = RemovedAt(currentTreeData, p)
                  /\ id \notin IdsIn(currentTreeData) =>
                         currentTreeData' = currentTreeData]_vars

\* The nodes of tree that carry id, and those of them that are folders.
PathsWithId(tree, id) ==
    {p \in NodePaths(tree) : IdOf(GetNode(tree, p)) = id}

FolderPathsWithId(tree, id) ==
    {p \in PathsWithId(tree, id) : GetNode(tree, p).type = "folder"}

\* The tree with the collapsed flag of the node at p negated (a flag that
\* is undefined being false).
FlippedAt(tree, p) ==
    PutNode(tree, p, With(GetNode(tree, p), "collapsed",
                          ~IsCollapsed(GetNode(tree, p))))

\* What the claim says of toggleNodeCollapse(id) on tree, whose renderings
\* are ascii and markdown.
ToggleAsClaimed(tree, id, ascii, markdown) ==
    LET after == treeAfterToggle(tree, id)
    IN  /\ \/ after = tree
           \/ \E p \in FolderPathsWithId(tree, id) : after = FlippedAt(tree, p)
        /\ FolderPathsWithId(tree, id) = {} => after = tree
        /\ PathsWithId(tree, id) = FolderPathsWithId(tree, id)
              /\ PathsWithId(tree, id) # {} => after # tree
        /\ after # tree =>
               /\ Ascii(after) = ascii
               /\ Markdown(after) = markdown
               /\ Content(treeAfterToggle(after, id)) = Content(tree)

\* C24: toggleNodeCollapse(id) changes nothing but the collapsed flag of a
\* folder carrying the id, and nothing at all when the id belongs to a file,
\* to an error node or to no node; the ASCII and the list rendering of the
\* tree are the same before and after, and a second toggle of the same id
\* gives the content of the first tree back.  A click on a caret does to the
\* live tree what toggleNodeCollapse does, and leaves the output text alone.
C24_ToggleChangesOnlyCollapsed ==
    /\ [](\A id \in IdsIn(currentTreeData) \cup {UnknownId} :
             ToggleAsClaimed(currentTreeData, id, Ascii(currentTreeData),
                             Markdown(currentTreeData)))
    /\ [][\A p \in NodePaths(currentTreeData) :
             ToggleCollapse(p) =>
                 /\ currentTreeData' =
                        treeAfterToggle(currentTreeData,
                                        IdOf(GetNode(currentTreeData, p)))
                 /\ treeOutput' = treeOutput]_vars

\* The root, which has a file among its children, was collapsed by a click
\* on its caret.
C24_Witness ==
    /\ IsCollapsed(currentTreeData)
    /\ \E i \in 1..Len(ChildrenOf(currentTreeData)) :
           currentTreeData.children[i].type = "file"
    /\ treeOutput = Ascii(currentTreeData)

-----------------------------------------------------------------------------
(* Reading the ignore file.                                                 *)

\* pattern is line with one leading '/' removed if line has one, and then
\* one trailing '/' removed if what is left has one.
IsStripped(pattern, line) ==
    \E lead, trail \in {"", "/"} :
        /\ line = lead \o pattern \o trail
        /\ lead = "/" <=> startsWith(line, "/")
        /\ trail = "/" <=> endsWith(pattern \o trail, "/")

\* patterns holds, in order, one pattern for each element of lines, the
\* stripped element.
OnePatternPerLine(patterns, lines) ==
    /\ Len(patterns) = Len(lines)
    /\ \A i \in 1..Len(lines) : IsStripped(patterns[i], lines[i])

\* The lines of the .gitignore of dir that are neither blank nor comments,
\* as they stand in the file.
RawLinesKept(dir) ==
    LET Kept(line) == trim(line) # "" /\ ~startsWith(line, "#")
    IN  SelectSeq(split(dir.gitignore.content, "\n"), Kept)

\* The lines of the .gitignore of dir without the white space around them,
\* those left out that are then empty or start with '#'.
TrimmedLinesKept(dir) ==
    LET lines == split(dir.gitignore.content, "\n")
        Kept(line) == line # "" /\ ~startsWith(line, "#")
    IN  SelectSeq([i \in 1..Len(lines) |-> trim(lines[i])], Kept)

\* The directories of the file system, by path.
DirPaths == {q \in PathsOf(fs) : ObjectAt(fs, q).kind = "dir"}

\* A directory whose .gitignore cannot be read yields no pattern, and the
\* tree built is the one built with an empty .gitignore in its place.
FailedReadIsEmpty(q) ==
    LET dir == ObjectAt(fs, q)
    IN  /\ getGitignorePatterns(dir) = <<>>
        /\ (Ran /\ useGitignore) =>
               generated =
                   Build(ChangeAt(fs, q, [dir EXCEPT !.gitignore = Gitignore("")]),
                         ignoreList)

\* C25 as stated: getGitignorePatterns returns one pattern for each line of
\* the .gitignore that is neither blank nor starts with '#', that line with
\* one leading and one trailing '/' removed; a missing or unreadable
\* .gitignore yields no pattern and does not make the scan fail.
C25_PatternsOfRawLines ==
    \A q \in DirPaths :
        LET dir == ObjectAt(fs, q)
        IN  IF dir.gitignore.code = "ok"
            THEN OnePatternPerLine(getGitignorePatterns(dir), RawLinesKept(dir))
            ELSE FailedReadIsEmpty(q)

\* C25, amended: the lines are taken without the white space around them
\* (a carriage return included): one pattern for each line that is then
\* neither empty nor starts with '#', the trimmed line with one leading and
\* one trailing '/' removed; a missing or unreadable .gitignore yields no
\* pattern and does not make the scan fail.
C25_PatternsOfTrimmedLines ==
    \A q \in DirPaths :
        LET dir == ObjectAt(fs, q)
        IN  IF dir.gitignore.code = "ok"
            THEN OnePatternPerLine(getGitignorePatterns(dir),
                                   TrimmedLinesKept(dir))
            ELSE FailedReadIsEmpty(q)

\* A scan with .gitignore files in use has returned a tree; the root's
\* .gitignore has a comment behind a blank, a line with two slashes at each
\* end, a blank line and a line that is one slash, and the directory below
\* has a .gitignore that cannot be read.
C25_Witness ==
    /\ Returned
    /\ useGitignore
    /\ fs.gitignore = Gitignore(" #c\n//b//\n\t\n/\r\nc")
    /\ getGitignorePatterns(fs) = <<"/b/", "", "c">>
    /\ \E i \in 1..Len(fs.entries) :
           /\ fs.entries[i].kind = "dir"
           /\ fs.entries[i].gitignore = DeniedGitignore

-----------------------------------------------------------------------------
(* Edits while a scan is in flight.                                         *)

\* C26: when the scan in flight settles with a failure or with a root that
\* has no children, the live tree afterwards still is, in content, the live
\* tree as the edits made since the click on 'Generate Tree' left it.
C26_FailedScanKeepsEdits ==
    [][\A answer \in ScanAnswers :
          (/\ GenerateSettle(answer)
           /\ IsThrown(answer) \/ isEmptyResult(answer))
              => Content(currentTreeData') = Content(currentTreeData)]_vars

-----------------------------------------------------------------------------
(* The error path of the load handler.                                      *)

\* The load of loadedTree ends in the catch block: the tree passes the
\* validation and the walk that installs it throws.
InstallThrows(loadedTree) ==
    /\ isValidTreeStructure(loadedTree)
    /\ installLoaded(loadedTree, nextId).thrown

\* C27: when the load handler ends in its catch block, 'load-tree-file'
\* having thrown or the installation of the loaded tree having thrown, the
\* live tree afterwards is the tree that was live before the click.
C27_LoadErrorKeepsTree ==
    [][(\/ LoadFailed
        \/ \E loadedTree \in LoadFiles :
               /\ InstallThrows(loadedTree)
               /\ LoadTreeWithin(loadedTree, MaxRenderId))
          => currentTreeData' = currentTreeData]_vars

-----------------------------------------------------------------------------
(* The shape of the live tree.                                              *)

\* The node is an object with a non-empty string name and a type that is
\* folder, file or error; a folder has an array of children, a file or an
\* error node has no children property.
WellFormedNode(node) ==
    /\ IsObject(node)
    /\ Has(node, "name") /\ IsString(node.name) /\ node.name # ""
    /\ Has(node, "type") /\ node.type \in {"folder", "file", "error"}
    /\ node.type = "folder" =>
           Has(node, "children") /\ IsArray(node.children)
    /\ node.type # "folder" => ~Has(node, "children")

\* C28: in every reachable state every node of the live tree, at every
\* depth, has a non-empty string name and a type that is folder, file or
\* error, every folder has an array of children, and no file or error node
\* has children.
C28_LiveTreeWellFormed ==
    \A p \in NodePaths(currentTreeData) :
        WellFormedNode(GetNode(currentTreeData, p))

-----------------------------------------------------------------------------
(* The node in edit mode.                                                   *)

\* C29: in every reachable state nodeBeingEdited is null or the id of a
\* node of the live tree.
C29_EditedNodeIsInTree ==
    nodeBeingEdited = NoId \/ nodeBeingEdited \in IdsIn(currentTreeData)

-----------------------------------------------------------------------------
(* Which directories a scan leaves out.                                     *)

\* The directories other than the root whose parent directory is a folder
\* node of the tree built, so that the scan came to decide about them.
DirsDecided ==
    {q \in PathsOf(fs) \ {<<>>} :
        /\ ObjectAt(fs, q).kind = "dir"
        /\ Represents(generated, SubSeq(q, 1, Len(q) - 1))
        /\ NodeAt(generated, SubSeq(q, 1, Len(q) - 1)).type = "folder"}

\* The name is a pattern of the .gitignore of a proper ancestor of the
\* object at q, .gitignore files being in use.
InAncestorGitignore(q) ==
    /\ useGitignore
    /\ \E k \in 0..(Len(q) - 1) :
           q[Len(q)] \in Range(getGitignorePatterns(
                                  ObjectAt(fs, SubSeq(q, 1, k))))

\* C30: a directory other than the root is left out of the tree only when
\* its name is in the explicit ignore list or in the .gitignore of one of
\* its ancestors; its own .gitignore never leaves the directory itself out.
C30_DirOmittedOnlyByAncestors ==
    Returned =>
        \A q \in DirsDecided :
            ~Represents(generated, q) =>
                q[Len(q)] \in ignoreList \/ InAncestorGitignore(q)

====
